---- MODULE Spec2Model ----
(***************************************************************************)
(* WebEcoMeter: page-weight aggregation (carbon_calc.get_page_size), the   *)
(* carbon conversion (carbon_calc.calculate_carbon_footprint), the metrics *)
(* store (models.WebsiteMetrics, models.get_db) and the Streamlit script   *)
(* that drives them (main.py).                                             *)
(*                                                                         *)
(* One sequential driver is modelled.  From "idle" it either               *)
(*   - runs the main.py script (a button press or a plain rerun), or       *)
(*   - uses the store API directly, the way models.py offers it:           *)
(*       with get_db() as db: WebsiteMetrics.create_measurement(db, ...)   *)
(*       with get_db() as db: WebsiteMetrics.get_history(db, url, limit)   *)
(* main.py itself never reaches the store: it calls next(get_db()) on the  *)
(* context manager, which raises TypeError (see Analyze and History).      *)
(* Spec is the whole; StoreSpec and ScriptSpec are its two halves, which   *)
(* share no state that either of them changes.  CalcSpec applies           *)
(* calculate_carbon_footprint, and ResolveSpec the resolution of one       *)
(* reference inside get_page_size, to arguments drawn from bounded sets.   *)
(* Numbers with two decimals are carried as integers in hundredths.        *)
(***************************************************************************)
EXTENDS Integers, Sequences, FiniteSets, TLC

VARIABLES
    rows,           \* table website_metrics: the committed rows, in insert order
    now,            \* the reading datetime.utcnow gives at this moment
    pc,             \* position of the driver
    db,             \* the session of the running store operation
    call,           \* frame of the running function: its name and arguments
    result,         \* what the function last called gave its caller
    session_state,  \* st.session_state of the Streamlit session
    run,            \* the running script run: its locals and what it has put on the page
    page,           \* frame of the running get_page_size
    recorded        \* the Measurement the direct caller holds from its last record

vars == <<rows, now, pc, db, call, result, session_state, run, page, recorded>>

-----------------------------------------------------------------------------
(* Bounds of the model *)

MaxRows == 3        \* rows the table may hold
MaxTime == 2        \* last reading of the clock
MaxRefs == 3        \* resource tags in a root document
MaxLimit == 2       \* largest limit given to get_history
MaxKb == 12         \* largest small page weight given to the calculator, in KB
MaxVisits == 4      \* largest small number of monthly visits given to the calculator
MaxDepth == 2       \* path segments in the address of a root document

(* Program constants *)

max_retries == 3
retry_delay == 1
KWH_PER_GB_MILLI == 1805
CARBON_PER_KWH == 442
TREE_ABSORPTION == 21

\* strings the code takes apart are sequences of characters
SiteA == <<"h", "t", "t", "p", "s", ":", "/", "/", "a", ".", "e", "x">>
SiteB == <<"h", "t", "t", "p", ":", "/", "/", "b", ".", "e", "x">>
NotAUrl == <<"n", "o", "t", "-", "a", "-", "u", "r", "l">>
RelativePath == <<"/", "r", "e", "l", "a", "t", "i", "v", "e", "/", "p", "a", "t", "h">>
ExampleCom == <<"h", "t", "t", "p", "s", ":", "/", "/",
                "e", "x", "a", "m", "p", "l", "e", ".", "c", "o", "m">>
\* a netloc with an opening bracket and no closing one
OpenBracket == <<"h", "t", "t", "p", ":", "/", "/", "[", "a">>
Urls == {SiteA, SiteB}
Causes == {"connection lost", "server closed the connection"}

Min(a, b) == IF a <= b THEN a ELSE b

-----------------------------------------------------------------------------
(* Exact arithmetic.  The code computes with floats; the model computes the *)
(* same expressions exactly.  A value is num / (d1 * d2 * ...), the         *)
(* numerator a natural number in limbs of Base (least significant first,    *)
(* so that no product leaves the integer range), the divisors small.        *)

Base == 100

RECURSIVE FromInt(_)
FromInt(n) == IF n = 0 THEN <<>> ELSE <<n % Base>> \o FromInt(n \div Base)

RECURSIVE ToInt(_)
ToInt(b) == IF b = <<>> THEN 0 ELSE Head(b) + Base * ToInt(Tail(b))

\* b * k + c, for k up to 10^7
RECURSIVE BigMul(_, _, _)
BigMul(b, k, c) ==
    IF b = <<>>
    THEN IF c = 0 THEN <<>> ELSE <<c % Base>> \o BigMul(<<>>, k, c \div Base)
    ELSE LET t == Head(b) * k + c
         IN  <<t % Base>> \o BigMul(Tail(b), k, t \div Base)

\* quotient (with leading zero limbs) and remainder of b by d, for d up to 10^7
RECURSIVE BigDivMod(_, _)
BigDivMod(b, d) ==
    IF b = <<>> THEN [q |-> <<>>, r |-> 0]
    ELSE LET hi == BigDivMod(Tail(b), d)
             cur == hi.r * Base + Head(b)
         IN  [q |-> <<cur \div d>> \o hi.q, r |-> cur % d]

\* floor(b / (d1 * d2 * ...)) and whether the division is exact
RECURSIVE DivAll(_, _)
DivAll(b, ds) ==
    IF ds = <<>> THEN [q |-> ToInt(b), exact |-> TRUE]
    ELSE LET step == BigDivMod(b, Head(ds))
             rest == DivAll(step.q, Tail(ds))
         IN  [q |-> rest.q, exact |-> rest.exact /\ step.r = 0]

Times(x, k) == [num |-> BigMul(x.num, k, 0), dens |-> x.dens]
Over(x, d) == [num |-> x.num, dens |-> Append(x.dens, d)]

\* round(x, 2), in hundredths: to nearest, an exact tie to the even neighbour
Round2(x) ==
    LET t == DivAll(BigMul(x.num, 200, 0), x.dens)
        down == t.q \div 2
    IN  IF t.q % 2 = 0 THEN down
        ELSE IF t.exact /\ down % 2 = 0 THEN down
        ELSE down + 1

\* int(x) in the place of math.ceil(x): the fraction is dropped
Ceil_Truncate(x) == DivAll(x.num, x.dens).q

\* math.ceil(x)
Ceil(x) ==
    LET t == DivAll(x.num, x.dens)
    IN  IF t.exact THEN t.q ELSE t.q + 1

\* the float total_size / 1024 of get_page_size
Kb(total_size) == [num |-> FromInt(total_size), dens |-> <<1024>>]

\* the conversion to GB by 1000 * 1000 in the place of 1024 * 1024
calculate_carbon_footprint_DecimalGb(page_size_kb, monthly_visits) ==
    LET annual_data_transfer_gb ==
            Over(Over(Times(Times(page_size_kb, monthly_visits), 12), 1000), 1000)
        annual_energy_kwh == Over(Times(annual_data_transfer_gb, KWH_PER_GB_MILLI), 1000)
        annual_carbon_g == Times(annual_energy_kwh, CARBON_PER_KWH)
        annual_carbon_kg == Over(annual_carbon_g, 1000)
        trees_needed == Over(annual_carbon_kg, TREE_ABSORPTION)
    IN  [page_size_kb |-> Round2(page_size_kb),
         annual_energy_kwh |-> Round2(annual_energy_kwh),
         annual_carbon_kg |-> Round2(annual_carbon_kg),
         trees_needed |-> Ceil(trees_needed)]

(* carbon_calc.calculate_carbon_footprint *)
calculate_carbon_footprint(page_size_kb, monthly_visits) ==
    LET annual_data_transfer_gb ==
            Over(Over(Times(Times(page_size_kb, monthly_visits), 12), 1024), 1024)
        \* KWH_PER_GB = 1.805
        annual_energy_kwh == Over(Times(annual_data_transfer_gb, KWH_PER_GB_MILLI), 1000)
        annual_carbon_g == Times(annual_energy_kwh, CARBON_PER_KWH)
        annual_carbon_kg == Over(annual_carbon_g, 1000)
        trees_needed == Over(annual_carbon_kg, TREE_ABSORPTION)
    IN  [page_size_kb |-> Round2(page_size_kb),
         annual_energy_kwh |-> Round2(annual_energy_kwh),
         annual_carbon_kg |-> Round2(annual_carbon_kg),
         trees_needed |-> Ceil(trees_needed)]

\* a page weight of a whole number of KB
WholeKb(k) == [num |-> FromInt(k), dens |-> <<>>]

\* arguments of the calculator called on its own: small ones, the default
\* and the smallest number of visits main.py offers, and larger sites
CalcWeights == {WholeKb(k) : k \in (0..MaxKb) \cup {500, 5000}}
CalcVisits == (1..MaxVisits) \cup {100, 10000, 100000}

-----------------------------------------------------------------------------
(* The store: models.py *)

NoCall == [op |-> "none"]
NoResult == [kind |-> "none"]
NoSession == [state |-> "none", pending |-> <<>>]

\* cls(url=..., page_size_kb=..., ...): a transient object, no id, no timestamp
NewMeasurement(url, metrics, monthly_visits) ==
    [url |-> url,
     page_size_kb |-> metrics.page_size_kb,
     monthly_visits |-> monthly_visits,
     annual_energy_kwh |-> metrics.annual_energy_kwh,
     annual_carbon_kg |-> metrics.annual_carbon_kg,
     trees_needed |-> metrics.trees_needed]

\* an upsert (db.merge on the url) in the place of the INSERT: the latest row
\* of the url, if there is one, is overwritten
InsertRow_UpsertByUrl(table, obj, clock) ==
    LET same == {i \in 1..Len(table) : table[i].url = obj.url}
        fresh(id) == [id |-> id,
                      url |-> obj.url,
                      timestamp |-> clock,
                      page_size_kb |-> obj.page_size_kb,
                      monthly_visits |-> obj.monthly_visits,
                      annual_energy_kwh |-> obj.annual_energy_kwh,
                      annual_carbon_kg |-> obj.annual_carbon_kg,
                      trees_needed |-> obj.trees_needed]
    IN  IF same = {} THEN Append(table, fresh(Len(table) + 1))
        ELSE LET last == CHOOSE i \in same : \A j \in same : j <= i
             IN  [table EXCEPT ![last] = fresh(last)]

\* the INSERT of the flush: id from the sequence, timestamp from default=datetime.utcnow
InsertRow(table, obj, clock) ==
    Append(table,
           [id |-> Len(table) + 1,
            url |-> obj.url,
            timestamp |-> clock,
            page_size_kb |-> obj.page_size_kb,
            monthly_visits |-> obj.monthly_visits,
            annual_energy_kwh |-> obj.annual_energy_kwh,
            annual_carbon_kg |-> obj.annual_carbon_kg,
            trees_needed |-> obj.trees_needed])


\* session.commit(): the flush inserts every pending object, then the transaction commits
RECURSIVE Flush(_, _, _)
Flush(table, pending, clock) ==
    IF pending = <<>> THEN table
    ELSE Flush(InsertRow(table, Head(pending), clock), Tail(pending), clock)

\* .filter(cls.url == url)
Matching(table, url) == {i \in 1..Len(table) : table[i].url = url}

\* .order_by(cls.timestamp.desc()): every order of ids the ORDER BY allows
\* (rows of equal timestamp come in whatever order the database picks)
OrderedDesc(table, ids) ==
    {p \in [1..Cardinality(ids) -> ids] :
        /\ \A i, j \in 1..Cardinality(ids) : i # j => p[i] # p[j]
        /\ \A i \in 1..(Cardinality(ids) - 1) :
              table[p[i]].timestamp >= table[p[i + 1]].timestamp}

\* .limit(limit).all(): the rows themselves
Query(table, url, limit) ==
    {[k \in 1..Min(limit, Len(p)) |-> table[p[k]]] : p \in OrderedDesc(table, Matching(table, url))}

\* the exception raised once the retries are used up; str(e) is the cause
Failure(operation, cause) ==
    [kind |-> "error", operation |-> operation, attempts |-> max_retries, cause |-> cause]

\* the comparison off by one: a fourth attempt is made before the failure is raised
LastAttempt_OffByOne(attempt) == attempt = max_retries

\* attempt == max_retries - 1: the attempt after which the failure is raised
LastAttempt(attempt) == attempt = max_retries - 1

\* how the raised message names the operation
OperationName(op) ==
    IF op = "create_measurement" THEN "create measurement" ELSE "fetch historical data"

\* db.close() in an else branch instead of finally: skipped when the body raises
GetDbExit_CloseOnlyOnSuccess(session, raised) ==
    IF raised THEN [session EXCEPT !.pending = <<>>]
    ELSE [session EXCEPT !.state = "closed", !.pending = <<>>]

\* get_db after the yield: "except: db.rollback(); raise" and "finally: db.close()"
GetDbExit(session, raised) ==
    LET after == IF raised THEN [session EXCEPT !.pending = <<>>] ELSE session
    IN  [after EXCEPT !.state = "closed", !.pending = <<>>]

NoRecorded == [held |-> FALSE]

\* inputs of the direct store calls
SampleVisits == {100}
SampleMetrics == {calculate_carbon_footprint(Kb(b), v) : b \in {2048}, v \in SampleVisits}

\* room left on the model's clock for one more call and its retries
Room == now + (max_retries - 1) * retry_delay <= MaxTime

\* room left in the model's table for what a commit inserts (a commit that
\* finds none fails, as any commit may)
TableRoom(pending) == Len(rows) + Len(pending) <= MaxRows

(* get_db().__enter__ followed by the call of create_measurement *)
StartRecord(url, metrics, monthly_visits) ==
    /\ pc = "idle"
    /\ Room
    /\ db' = [state |-> "open", pending |-> <<>>]
    /\ call' = [op |-> "create_measurement", url |-> url, metrics |-> metrics,
                monthly_visits |-> monthly_visits, limit |-> 0,
                attempt |-> 0, tries |-> 0, exc |-> "none", new_id |-> 0,
                started |-> now, before |-> rows]
    /\ result' = NoResult
    /\ pc' = "cm_add"
    /\ recorded' = NoRecorded
    /\ UNCHANGED <<rows, now, session_state, run, page>>

(* create_measurement, lines 66-74: build the object and db.add it *)
CmAdd ==
    /\ pc = "cm_add"
    /\ \/ /\ db' = [db EXCEPT !.pending =
                      Append(@, NewMeasurement(call.url, call.metrics, call.monthly_visits))]
          /\ call' = [call EXCEPT !.tries = @ + 1]
          /\ pc' = "cm_commit"
       \/ \E c \in Causes :
             /\ call' = [call EXCEPT !.tries = @ + 1, !.exc = c]
             /\ pc' = "cm_except"
             /\ UNCHANGED db
    /\ UNCHANGED <<rows, now, result, session_state, run, page, recorded>>

(* create_measurement, line 75: db.commit() *)
CmCommit ==
    /\ pc = "cm_commit"
    /\ \/ /\ TableRoom(db.pending)
          /\ rows' = Flush(rows, db.pending, now)
          /\ db' = [db EXCEPT !.pending = <<>>]
          /\ call' = [call EXCEPT !.new_id = Len(rows')]
          /\ pc' = "cm_refresh"
       \/ \E c \in Causes :
             /\ call' = [call EXCEPT !.exc = c]
             /\ pc' = "cm_except"
             /\ UNCHANGED <<rows, db>>
    /\ UNCHANGED <<now, result, session_state, run, page, recorded>>

(* create_measurement, lines 76-77: db.refresh(new_measurement); return *)
CmRefresh ==
    /\ pc = "cm_refresh"
    /\ \/ /\ result' = [kind |-> "ok", value |-> rows[call.new_id]]
          /\ pc' = "db_exit"
          /\ UNCHANGED call
       \/ \E c \in Causes :
             /\ call' = [call EXCEPT !.exc = c]
             /\ pc' = "cm_except"
             /\ UNCHANGED result
    /\ UNCHANGED <<rows, now, db, session_state, run, page, recorded>>

(* create_measurement, lines 78-82: rollback, then raise or sleep and retry *)
CmExcept ==
    /\ pc = "cm_except"
    /\ db' = [db EXCEPT !.pending = <<>>]
    /\ IF LastAttempt(call.attempt)
       THEN /\ result' = Failure(OperationName(call.op), call.exc)
            /\ pc' = "db_exit"
            /\ UNCHANGED <<call, now>>
       ELSE /\ now' = now + retry_delay
            /\ call' = [call EXCEPT !.attempt = @ + 1]
            /\ pc' = "cm_add"
            /\ UNCHANGED result
    /\ UNCHANGED <<rows, session_state, run, page, recorded>>

(* get_db().__enter__ followed by the call of get_history *)
StartHistory(url, limit) ==
    /\ pc = "idle"
    /\ Room
    /\ db' = [state |-> "open", pending |-> <<>>]
    /\ call' = [op |-> "get_history", url |-> url, metrics |-> 0,
                monthly_visits |-> 0, limit |-> limit,
                attempt |-> 0, tries |-> 0, exc |-> "none", new_id |-> 0,
                started |-> now, before |-> rows]
    /\ result' = NoResult
    /\ pc' = "gh_query"
    /\ UNCHANGED <<rows, now, session_state, run, page, recorded>>

(* get_history, lines 90-100: one attempt of the query *)
GhQuery ==
    /\ pc = "gh_query"
    /\ \/ \E found \in Query(rows, call.url, call.limit) :
             /\ result' = [kind |-> "ok", value |-> found]
             /\ call' = [call EXCEPT !.tries = @ + 1]
             /\ pc' = "db_exit"
             /\ UNCHANGED now
       \/ \E c \in Causes :
             IF LastAttempt(call.attempt)
             THEN /\ result' = Failure(OperationName(call.op), c)
                  /\ call' = [call EXCEPT !.tries = @ + 1, !.exc = c]
                  /\ pc' = "db_exit"
                  /\ UNCHANGED now
             ELSE /\ now' = now + retry_delay
                  /\ call' = [call EXCEPT !.tries = @ + 1, !.exc = c, !.attempt = @ + 1]
                  /\ UNCHANGED <<result, pc>>
    /\ UNCHANGED <<rows, db, session_state, run, page, recorded>>

(* get_db, lines 108-112: on an exception rollback and re-raise; always close *)
DbExit ==
    /\ pc = "db_exit"
    /\ db' = GetDbExit(db, result.kind = "error")
    /\ pc' = "api_done"
    /\ UNCHANGED <<rows, now, call, result, session_state, run, page, recorded>>

(* the caller has its value or its exception; the frames are dropped *)
ApiReturn ==
    /\ pc = "api_done"
    /\ pc' = "idle"
    /\ db' = NoSession
    /\ call' = NoCall
    /\ result' = NoResult
    /\ recorded' = IF call.op = "create_measurement" /\ result.kind = "ok"
                   THEN [held |-> TRUE, measurement |-> result.value]
                   ELSE NoRecorded
    /\ UNCHANGED <<rows, now, session_state, run, page>>

(* Time passes between two operations.  The timestamp of a row is the wall  *)
(* clock of the client at its insert (default=datetime.utcnow); nothing     *)
(* makes two reads of it differ, so the inserts made between two ticks of   *)
(* the clock (its granularity, several callers) carry the same timestamp.   *)
Tick ==
    /\ pc = "idle"
    /\ now < MaxTime
    /\ now' = now + 1
    /\ UNCHANGED <<rows, pc, db, call, result, session_state, run, page, recorded>>

-----------------------------------------------------------------------------
(* carbon_calc.validate_url: urlparse(url) has a scheme and a netloc *)

Alpha == {"a", "b", "c", "d", "e", "f", "g", "h", "i", "j", "k", "l", "m",
          "n", "o", "p", "q", "r", "s", "t", "u", "v", "w", "x", "y", "z"}
SchemeChars == Alpha \cup {"0", "1", "2", "3", "4", "5", "6", "7", "8", "9", "+", "-", "."}

\* url.find(c): the first position of a character of cs, Len(url) + 1 if there is none
Find(url, cs) ==
    LET hits == {i \in 1..Len(url) : url[i] \in cs}
    IN  IF hits = {} THEN Len(url) + 1
        ELSE CHOOSE i \in hits : \A j \in hits : i <= j

\* urlsplit: the text before the first ":" when it is a well-formed scheme
SchemeOf(url) ==
    LET i == Find(url, {":"})
    IN  IF /\ i <= Len(url)
           /\ i > 1
           /\ url[1] \in Alpha
           /\ \A k \in 1..(i - 1) : url[k] \in SchemeChars
        THEN SubSeq(url, 1, i - 1)
        ELSE <<>>

\* urlsplit: after the scheme, "//" opens the netloc, which ends at "/", "?" or "#"
NetlocOf(url) ==
    LET scheme == SchemeOf(url)
        rest == IF scheme = <<>> THEN url ELSE SubSeq(url, Len(scheme) + 2, Len(url))
    IN  IF Len(rest) >= 2 /\ rest[1] = "/" /\ rest[2] = "/"
        THEN LET tail == SubSeq(rest, 3, Len(rest))
             IN  SubSeq(tail, 1, Find(tail, {"/", "?", "#"}) - 1)
        ELSE <<>>

\* urlsplit raises ValueError("Invalid IPv6 URL") on a netloc with one bracket
\* of a pair
UrlsplitRaises(url) ==
    LET netloc == NetlocOf(url)
        has(c) == \E i \in 1..Len(netloc) : netloc[i] = c
    IN  has("[") # has("]")

\* all([result.scheme, result.netloc]); "except: return False"
validate_url(url) ==
    IF UrlsplitRaises(url) THEN FALSE
    ELSE SchemeOf(url) # <<>> /\ NetlocOf(url) # <<>>

-----------------------------------------------------------------------------
(* The Streamlit script main.py and carbon_calc.get_page_size *)

\* what the user may type and choose
UrlInputs == {<<>>, NotAUrl, RelativePath, OpenBracket, ExampleCom, SiteA}
VisitInputs == {100}

\* what the network may answer
RootLens == {2048}
Lens == {512}
\* a response carries a status and maybe a content-length header
NoHeader == 0 - 1
Responses == [status : {"ok", "bad"}, content_length : Lens \cup {NoHeader}]

NoRun ==
    [button |-> FALSE, url |-> <<>>, error |-> "none", shown |-> FALSE,
     exception |-> FALSE, calculated |-> FALSE, metrics |-> "none", store_calls |-> 0]
NoPage == [stage |-> "none"]

\* str.startswith(prefix)
StartsWith(str, prefix) ==
    Len(str) >= Len(prefix) /\ SubSeq(str, 1, Len(prefix)) = prefix

\* str.rstrip(c)
RECURSIVE RStrip(_, _)
RStrip(str, c) ==
    IF str # <<>> /\ str[Len(str)] = c THEN RStrip(SubSeq(str, 1, Len(str) - 1), c) ELSE str

Http == <<"h", "t", "t", "p", ":", "/", "/">>
Https == <<"h", "t", "t", "p", "s", ":", "/", "/">>

(* get_page_size, lines 47-50: the address requested for the src or href of *)
(* a tag, given response.url, the address the root document came from       *)
ResolveSrc(response_url, src) ==
    IF ~(StartsWith(src, Http) \/ StartsWith(src, Https))
    THEN LET rooted == IF ~StartsWith(src, <<"/">>) THEN <<"/">> \o src ELSE src
         IN  RStrip(response_url, "/") \o rooted
    ELSE src

\* paths of at most d segments
RECURSIVE PathsUpTo(_)
PathsUpTo(d) ==
    IF d = 0 THEN {<<>>}
    ELSE LET shorter == PathsUpTo(d - 1)
         IN  shorter \cup {q \o <<"/", c>> : q \in shorter, c \in {"b", "p"}}

\* addresses a root document may come from: a site, a path, maybe a final "/"
RootUrls == {site \o path \o slash : site \in Urls, path \in PathsUpTo(MaxDepth),
                                     slash \in {<<>>, <<"/">>}}

\* the src and href values of tags: absolute, root-relative, relative
Srcs == {Http \o <<"c", ".", "e", "x", "/", "x", ".", "j", "s">>,
         Https \o <<"c", ".", "e", "x", "/", "x", ".", "j", "s">>,
         <<"/", "s", ".", "c", "s", "s">>,
         <<"s", ".", "c", "s", "s">>,
         <<"i", "/", "a", ".", "p", "n", "g">>}

\* resource.headers.get('content-length', 0)
ContentLength(resp) == IF resp.content_length = NoHeader THEN 0 ELSE resp.content_length

\* the elif branch left out: only the empty input is turned away
Rejection_EmptyOnly(url) ==
    IF url = <<>> THEN "Please enter a URL" ELSE "none"

\* main.py lines 51-54: the st.error an input is turned away with, "none" if it passes
Rejection(url) ==
    IF url = <<>> THEN "Please enter a URL"
    ELSE IF ~validate_url(url) THEN "Please enter a valid URL"
    ELSE "none"

(* lines 50-59 of main.py up to the requests.get of get_page_size line 36 *)
Click(url, monthly_visits) ==
    /\ pc = "idle"
    /\ IF Rejection(url) # "none"
       THEN /\ run' = [NoRun EXCEPT !.button = TRUE, !.url = url, !.error = Rejection(url)]
            /\ pc' = "history"
            /\ UNCHANGED page
       ELSE /\ run' = [NoRun EXCEPT !.button = TRUE, !.url = url]
            /\ \E a \in BOOLEAN :
                  page' = [stage |-> "root", url |-> url, monthly_visits |-> monthly_visits,
                           answers |-> a, root |-> "none", root_len |-> 0,
                           total_size |-> 0, refs |-> 0, issued |-> 0,
                           fetched |-> <<>>, weight |-> Kb(0), before |-> rows]
            /\ pc' = "root_wait"
    /\ UNCHANGED <<rows, now, db, call, result, session_state, recorded>>

\* the next requests.get of the loop of lines 44-55, or the return of line 57
AfterFetch(p) ==
    IF Len(p.fetched) < p.refs
    THEN {[p EXCEPT !.stage = "resource", !.answers = a, !.issued = @ + 1] : a \in BOOLEAN}
    ELSE {[p EXCEPT !.stage = "returned", !.weight = Kb(p.total_size)]}

\* without response.raise_for_status(): only a failed request raises
RootRaises_NoStatusCheck(how) == how = "error"

\* requests.get raises ("error"), or response.raise_for_status() does ("bad")
RootRaises(how) == how \in {"error", "bad"}

(* get_page_size, lines 36-52 and 58-59, main.py lines 167-168: the root   *)
(* request ends.  A failure is raised again as "Error fetching page size"  *)
(* and main.py reports it; a success starts the loop over the n resources. *)
RootResponse(how, len, n) ==
    /\ pc = "root_wait"
    /\ page.answers
    /\ IF RootRaises(how)
       THEN /\ page' = [page EXCEPT !.root = how, !.stage = "raised"]
            /\ run' = [run EXCEPT !.error = "Error analyzing website: Error fetching page size"]
            /\ pc' = "history"
       ELSE /\ page' \in AfterFetch([page EXCEPT !.root = how, !.root_len = len,
                                                 !.total_size = len, !.refs = n])
            /\ pc' = IF page'.stage = "returned" THEN "analyze" ELSE "resource_wait"
            /\ UNCHANGED run
    /\ UNCHANGED <<rows, now, db, call, result, session_state, recorded>>

(* get_page_size, lines 52-53: a response to a resource request, whatever its status *)
ResourceResponse(resp) ==
    /\ pc = "resource_wait"
    /\ page.answers
    /\ page' \in AfterFetch([page EXCEPT
                                !.total_size = @ + ContentLength(resp),
                                !.fetched = Append(@, [outcome |-> resp.status,
                                                       content_length |-> resp.content_length])])
    /\ pc' = IF page'.stage = "returned" THEN "analyze" ELSE "resource_wait"
    /\ UNCHANGED <<rows, now, db, call, result, session_state, run, recorded>>

(* get_page_size, lines 52 and 54-55: the resource request raises *)
ResourceError ==
    /\ pc = "resource_wait"
    /\ page.answers
    /\ page' \in AfterFetch([page EXCEPT
                                !.fetched = Append(@, [outcome |-> "error",
                                                       content_length |-> NoHeader])])
    /\ pc' = IF page'.stage = "returned" THEN "analyze" ELSE "resource_wait"
    /\ UNCHANGED <<rows, now, db, call, result, session_state, run, recorded>>

(* main.py, lines 60-70 and 167-168.  get_db() is a context manager, not   *)
(* an iterator: next(get_db()) raises TypeError before the generator body  *)
(* has run, so no session is made and create_measurement is not reached.   *)
Analyze ==
    /\ pc = "analyze"
    /\ LET metrics == calculate_carbon_footprint(page.weight, page.monthly_visits)
       IN  /\ session_state' = [analysis_complete |-> TRUE, metrics |-> metrics,
                                analysis_url |-> page.url,
                                monthly_visits |-> page.monthly_visits]
           /\ run' = [run EXCEPT !.calculated = TRUE, !.metrics = metrics,
                                 !.error = "Error analyzing website: object is not an iterator"]
    /\ pc' = "history"
    /\ UNCHANGED <<rows, now, db, call, result, page, recorded>>

(* a script run in which the button is not pressed *)
Rerun ==
    /\ pc = "idle"
    /\ run' = NoRun
    /\ pc' = "history"
    /\ UNCHANGED <<rows, now, db, call, result, session_state, page, recorded>>

(* main.py, lines 171-176: next(get_db()) raises TypeError outside any try *)
History ==
    /\ pc = "history"
    /\ run' = [run EXCEPT !.exception = session_state.analysis_complete]
    /\ pc' = "shown"
    /\ UNCHANGED <<rows, now, db, call, result, session_state, page, recorded>>

(* the script run is over and the page stands until the next interaction *)
ScriptEnd ==
    /\ pc = "shown"
    /\ pc' = "idle"
    /\ run' = NoRun
    /\ page' = NoPage
    /\ UNCHANGED <<rows, now, db, call, result, session_state, recorded>>

-----------------------------------------------------------------------------
Init ==
    /\ rows = <<>>
    /\ now = 0
    /\ pc = "idle"
    /\ db = NoSession
    /\ call = NoCall
    /\ result = NoResult
    /\ session_state = [analysis_complete |-> FALSE]
    /\ run = NoRun
    /\ page = NoPage
    /\ recorded = NoRecorded

\* the direct use of the store
NextStore ==
    \/ \E u \in Urls, m \in SampleMetrics, v \in SampleVisits : StartRecord(u, m, v)
    \/ CmAdd
    \/ CmCommit
    \/ CmRefresh
    \/ CmExcept
    \/ \E u \in Urls, l \in 1..MaxLimit : StartHistory(u, l)
    \/ GhQuery
    \/ DbExit
    \/ ApiReturn
    \/ Tick

\* the script runs of main.py, but for the step Analyze
ScriptSteps ==
    \/ \E u \in UrlInputs, v \in VisitInputs : Click(u, v)
    \/ \E how \in {"ok", "error", "bad"}, len \in RootLens, n \in 0..MaxRefs :
          RootResponse(how, len, n)
    \/ \E resp \in Responses : ResourceResponse(resp)
    \/ ResourceError
    \/ Rerun
    \/ History
    \/ ScriptEnd

\* the script runs of main.py
NextScript == ScriptSteps \/ Analyze

Next == NextStore \/ NextScript

Spec == Init /\ [][Next]_vars

(* calculate_carbon_footprint called on its own *)
CalcInit ==
    /\ rows = <<>>
    /\ now = 0
    /\ pc = "calc"
    /\ db = NoSession
    /\ \E w \in CalcWeights, v \in CalcVisits :
          call = [op |-> "calculate_carbon_footprint", page_size_kb |-> w, monthly_visits |-> v]
    /\ result = NoResult
    /\ session_state = [analysis_complete |-> FALSE]
    /\ run = NoRun
    /\ page = NoPage
    /\ recorded = NoRecorded

Calculate ==
    /\ pc = "calc"
    /\ result' = [kind |-> "ok",
                  value |-> calculate_carbon_footprint(call.page_size_kb, call.monthly_visits)]
    /\ pc' = "calc_done"
    /\ UNCHANGED <<rows, now, db, call, session_state, run, page, recorded>>

CalcSpec == CalcInit /\ [][Calculate]_vars

(* the resolution of one reference of get_page_size on its own *)
ResolveInit ==
    /\ rows = <<>>
    /\ now = 0
    /\ pc = "src"
    /\ db = NoSession
    /\ \E u \in RootUrls, r \in Srcs :
          call = [op |-> "get_page_size", response_url |-> u, src |-> r]
    /\ result = NoResult
    /\ session_state = [analysis_complete |-> FALSE]
    /\ run = NoRun
    /\ page = NoPage
    /\ recorded = NoRecorded

Resolve ==
    /\ pc = "src"
    /\ result' = [kind |-> "ok", value |-> ResolveSrc(call.response_url, call.src)]
    /\ pc' = "src_done"
    /\ UNCHANGED <<rows, now, db, call, session_state, run, page, recorded>>

ResolveSpec == ResolveInit /\ [][Resolve]_vars

\* the store used on its own
StoreSpec == Init /\ [][NextStore]_vars

\* The script takes its next step whenever it has one, and an answer that is
\* on its way arrives.  A request the server never answers (page.answers
\* false) has no next step: requests.get is called without a timeout.
\* (Analyze is enabled exactly when pc = "analyze" and is the only step that
\* leaves that position, which is how its fairness is written.)
ScriptSpec ==
    /\ Init
    /\ [][NextScript]_vars
    /\ WF_vars(ScriptSteps)
    /\ WF_pc(pc = "analyze" /\ pc' = "history")

-----------------------------------------------------------------------------
(* Properties *)

InStoreCall(op) == call.op = op
Returned(op) == pc = "api_done" /\ call.op = op

\* C1: one call of create_measurement persists exactly one row when it
\* returns, none when it raises, and never more than one while it runs.
C1_RecordPersistsExactlyOne ==
    InStoreCall("create_measurement") =>
        /\ Len(rows) <= Len(call.before) + 1
        /\ (pc = "api_done" /\ result.kind = "ok") => Len(rows) = Len(call.before) + 1
        /\ (pc = "api_done" /\ result.kind = "error") => rows = call.before

\* C2: a store operation makes at most 3 attempts, one fixed delay apart,
\* none after a success, and after 3 failures raises an error that names the
\* operation and carries the cause of the last failure instead of a value.
C2_BoundedRetry ==
    call.op # "none" =>
        /\ call.tries <= 3
        /\ now = call.started + call.attempt * retry_delay
        /\ result.kind # "none" => pc \in {"db_exit", "api_done"}
        /\ result.kind = "ok" => call.tries = call.attempt + 1
        /\ result.kind = "error" =>
              /\ call.tries = 3
              /\ result.operation = OperationName(call.op)
              /\ result.cause = call.exc
              /\ result.cause \in Causes
        /\ (call.tries = 3 /\ pc = "cm_except") => call.attempt = 2

C2_Witness_ExhaustedRetries ==
    /\ pc = "api_done"
    /\ result.kind = "error"
    /\ call.tries = 3

C4_ComputedMetricsAreShown ==
    (pc = "shown" /\ run.calculated) => run.shown

\* the content lengths of the fetches of outcome "ok", 0 where unreported
RECURSIVE SucceededBytes(_)
SucceededBytes(fetched) ==
    IF fetched = <<>> THEN 0
    ELSE (IF Head(fetched).outcome = "ok" /\ Head(fetched).content_length # NoHeader
          THEN Head(fetched).content_length ELSE 0)
         + SucceededBytes(Tail(fetched))

\* C5: failing resources never abort get_page_size, and the weight it returns
\* is (root length + content lengths of the resources that succeeded) / 1024.
C5_WeightIsRootPlusSucceeded ==
    /\ page.stage = "raised" => page.fetched = <<>> /\ page.issued = 0
    /\ page.stage = "returned" =>
          /\ Len(page.fetched) = page.refs
          /\ page.weight = Kb(page.root_len + SucceededBytes(page.fetched))

\* C6: a resource answered with a non-success status adds nothing to the total.
C6_BadStatusIsSkipped ==
    [][(/\ pc = "resource_wait"
        /\ Len(page'.fetched) = Len(page.fetched) + 1
        /\ page'.fetched[Len(page'.fetched)].outcome = "bad")
       => page'.total_size = page.total_size]_vars

\* C7: when the root fetch fails the request ends in a reported error: no
\* weight, no resource request, no calculation, no store access, no new row.
C7_RootFailureAborts ==
    (page.stage # "none" /\ page.root \in {"error", "bad"}) =>
        /\ page.stage = "raised"
        /\ run.error = "Error analyzing website: Error fetching page size"
        /\ page.issued = 0
        /\ page.fetched = <<>>
        /\ ~run.calculated
        /\ ~run.shown
        /\ run.store_calls = 0
        /\ rows = page.before
        /\ pc \in {"history", "shown"}

C7_Witness_RootBadStatus ==
    /\ pc = "shown"
    /\ page.stage = "raised"
    /\ page.root = "bad"
    /\ run.error = "Error analyzing website: Error fetching page size"

\* C8: every fetch ends: a request waiting for the root document or for a
\* resource eventually stops waiting.
C8_FetchesTerminate ==
    (pc \in {"root_wait", "resource_wait"}) ~> (pc \notin {"root_wait", "resource_wait"})

\* C9: history(url, 1) right after a successful record(url, ...) returns
\* exactly the Measurement just recorded.
C9_HistoryReturnsJustRecorded ==
    (/\ Returned("get_history")
     /\ result.kind = "ok"
     /\ call.limit = 1
     /\ recorded.held
     /\ recorded.measurement.url = call.url)
    => result.value = <<recorded.measurement>>

\* C10: get_history returns only rows of the url, at most limit of them, the
\* most recent ones, in strictly descending timestamp order; nothing for a
\* url without rows.
C10_HistoryContract ==
    (Returned("get_history") /\ result.kind = "ok") =>
        LET found == result.value
            ids == {found[i].id : i \in 1..Len(found)}
        IN  /\ \A i \in 1..Len(found) : found[i].url = call.url /\ found[i] = rows[found[i].id]
            /\ Len(found) = Min(call.limit, Cardinality(Matching(rows, call.url)))
            /\ Cardinality(ids) = Len(found)
            /\ \A i \in 1..(Len(found) - 1) : found[i].timestamp > found[i + 1].timestamp
            /\ \A j \in Matching(rows, call.url) \ ids :
                  \A i \in 1..Len(found) : rows[j].timestamp <= found[i].timestamp
            /\ Matching(rows, call.url) = {} => found = <<>>

\* C11: validate_url answers for every input (false where urlsplit raises),
\* false for "", "not-a-url" and "/relative/path", true for
\* "https://example.com"; a request whose url is empty or fails validate_url
\* is turned away with a message, without a fetch and without a store access.
C11_InvalidInputRejected ==
    /\ \A u \in UrlInputs : validate_url(u) \in BOOLEAN
    /\ ~validate_url(<<>>)
    /\ ~validate_url(NotAUrl)
    /\ ~validate_url(RelativePath)
    /\ ~validate_url(OpenBracket)
    /\ validate_url(ExampleCom)
    /\ (run.button /\ (run.url = <<>> \/ ~validate_url(run.url))) =>
          /\ run.error \in {"Please enter a URL", "Please enter a valid URL"}
          /\ page = NoPage
          /\ ~run.calculated
          /\ run.store_calls = 0
          /\ db = NoSession
          /\ call = NoCall
          /\ rows = <<>>
          /\ pc \in {"history", "shown"}

C11_Witness_NotAUrlTurnedAway ==
    /\ pc = "shown"
    /\ run.button
    /\ run.url = NotAUrl
    /\ run.error = "Please enter a valid URL"
    /\ page = NoPage

\* math.ceil(hundredths / (100 * d)), for a value given in hundredths
CeilOfHundredths(hundredths, d) == (hundredths + 100 * d - 1) \div (100 * d)

\* C12: the trees_needed the calculator returns is the ceiling of the
\* annual_carbon_kg it returns (the 2-decimal field) over 21.
C12_TreesFromReturnedCarbon ==
    (pc = "calc_done") =>
        result.value.trees_needed
            = CeilOfHundredths(result.value.annual_carbon_kg, TREE_ABSORPTION)

\* a natural number in limbs without its leading zero limbs
RECURSIVE Trim(_)
Trim(b) == IF b # <<>> /\ b[Len(b)] = 0 THEN Trim(SubSeq(b, 1, Len(b) - 1)) ELSE b

\* a <= b for natural numbers in limbs
RECURSIVE TrimmedLeq(_, _)
TrimmedLeq(a, b) ==
    IF Len(a) # Len(b) THEN Len(a) < Len(b)
    ELSE IF a = <<>> THEN TRUE
    ELSE IF a[Len(a)] # b[Len(b)] THEN a[Len(a)] < b[Len(b)]
    ELSE TrimmedLeq(SubSeq(a, 1, Len(a) - 1), SubSeq(b, 1, Len(b) - 1))

BigLeq(a, b) == TrimmedLeq(Trim(a), Trim(b))

\* b * d1 * d2 * ...
RECURSIVE MulAll(_, _)
MulAll(b, ds) == IF ds = <<>> THEN b ELSE MulAll(BigMul(b, Head(ds), 0), Tail(ds))

\* t trees absorb at least the annual carbon of the call, in kg before any
\* rounding: weight * visits * 12 * 1.805 * 442 / (1024 * 1024 * 1000) <= 21 * t
TreesAbsorb(t) ==
    LET emitted == MulAll(call.page_size_kb.num,
                          <<call.monthly_visits, 12, KWH_PER_GB_MILLI, CARBON_PER_KWH>>)
        absorbed == MulAll(FromInt(t),
                           <<TREE_ABSORPTION, 1024, 1024, 1000, 1000>> \o call.page_size_kb.dens)
    IN  BigLeq(emitted, absorbed)

\* C12, amended: trees_needed is the ceiling of annual_carbon_kg / 21 for the
\* annual_carbon_kg before its rounding to 2 decimals: the least number of
\* trees that absorb it; it is the ceiling taken from the returned field, or
\* one more.
C12_TreesFromUnroundedCarbon ==
    (pc = "calc_done") =>
        LET t == result.value.trees_needed
            fromField == CeilOfHundredths(result.value.annual_carbon_kg, TREE_ABSORPTION)
        IN  /\ t \in Nat
            /\ TreesAbsorb(t)
            /\ t > 0 => ~TreesAbsorb(t - 1)
            /\ t \in {fromField, fromField + 1}

C12_Witness_RoundedAwayCarbon ==
    /\ pc = "calc_done"
    /\ result.value.annual_carbon_kg = 0
    /\ result.value.trees_needed = 1

\* the annual carbon of the call, in kg before any rounding, is at most
\* n / 10000
CarbonAtMost(n) ==
    LET emitted == MulAll(call.page_size_kb.num,
                          <<call.monthly_visits, 12, KWH_PER_GB_MILLI, CARBON_PER_KWH, 10000>>)
        bound == MulAll(FromInt(n), <<1024, 1024, 1000, 1000>> \o call.page_size_kb.dens)
    IN  BigLeq(emitted, bound)

CalculatedFor(kb, visits) ==
    /\ pc = "calc_done"
    /\ call.page_size_kb = WholeKb(kb)
    /\ call.monthly_visits = visits

\* C13: 500 KB at 10000 visits gives an annual_carbon_kg of about 0.0457
\* before rounding and 1 tree; 5000 KB at 100000 visits gives about 4.566
\* and 1 tree.
C13_ScenariosAsStated ==
    /\ CalculatedFor(500, 10000) =>
          /\ ~CarbonAtMost(455) /\ CarbonAtMost(459)
          /\ result.value.trees_needed = 1
    /\ CalculatedFor(5000, 100000) =>
          /\ ~CarbonAtMost(45650) /\ CarbonAtMost(45670)
          /\ result.value.trees_needed = 1

\* C13, amended: 500 KB at 10000 visits gives an annual_carbon_kg of about
\* 45.651 before rounding, 45.65 returned, and 3 trees; 5000 KB at 100000
\* visits gives about 4565.105, 4565.11 returned, and 218 trees.
C13_ScenariosAsComputed ==
    /\ CalculatedFor(500, 10000) =>
          /\ ~CarbonAtMost(456510) /\ CarbonAtMost(456511)
          /\ result.value.annual_energy_kwh = 10328
          /\ result.value.annual_carbon_kg = 4565
          /\ result.value.trees_needed = 3
    /\ CalculatedFor(5000, 100000) =>
          /\ ~CarbonAtMost(45651054) /\ CarbonAtMost(45651055)
          /\ result.value.annual_carbon_kg = 456511
          /\ result.value.trees_needed = 218

C13_Witness_LargeSite ==
    /\ CalculatedFor(5000, 100000)
    /\ result.value.trees_needed = 218

\* C14: no step of create_measurement or get_history, failed and retried
\* attempts included, removes a persisted Measurement or changes a field of
\* one; a step of get_history leaves the persisted Measurements as they are.
C14_AppendOnly ==
    [][/\ Len(rows') >= Len(rows)
       /\ SubSeq(rows', 1, Len(rows)) = rows
       /\ call.op = "get_history" => rows' = rows]_vars

C14_Witness_RetriedOverEarlierRows ==
    /\ pc = "api_done"
    /\ call.op = "create_measurement"
    /\ call.attempt > 0
    /\ Len(call.before) >= 1
    /\ Len(rows) > Len(call.before)
    /\ now > rows[1].timestamp

\* scheme://host of an address
OriginOf(url) == SchemeOf(url) \o <<":", "/", "/">> \o NetlocOf(url)

\* C15: a reference starting with http:// or https:// is requested as it is;
\* any other is requested at the origin (scheme and host) of the address of
\* the root document, followed by the reference, which gets a "/" in front
\* when it has none: /s.css of a document at https://a.ex/b/p is requested
\* from https://a.ex/s.css.
C15_ResolvedAtOrigin ==
    (pc = "src_done") =>
        result.value =
            IF StartsWith(call.src, Http) \/ StartsWith(call.src, Https) THEN call.src
            ELSE IF call.src[1] = "/" THEN OriginOf(call.response_url) \o call.src
            ELSE OriginOf(call.response_url) \o <<"/">> \o call.src

====
